---- MODULE Spec2Model ----
(***************************************************************************)
(* A model of pyodm (src/src/pyodm/odm.py): ModuleSpec and its memoized    *)
(* load(), MetaSource.get_specifier, and OptionalDependencyManager with    *)
(* its decorator, the lazily loading class checker and function wrapper,   *)
(* and report().                                                           *)
(*                                                                         *)
(* Strings of the program are TLA+ strings drawn from small vocabularies.  *)
(* Python's None is the string "None" for optional strings, NoVersion for  *)
(* an absent version and NoModule for an absent module handle.  Installed  *)
(* versions are natural numbers n standing for the version string "n.0.0". *)
(***************************************************************************)
EXTENDS Integers, Sequences, FiniteSets, TLC

VARIABLES
    installed,        \* importlib.metadata: package name -> installed version
    sysmodules,       \* sys.modules: module name -> module handle
    specs,            \* the ModuleSpec objects created so far (the heap)
    checks,           \* per ModuleSpec: number of version() queries made by it
    imports,          \* per ModuleSpec: number of writes to sys.modules by it
    first,            \* per ModuleSpec: what its first load() call produced
    source,           \* OptionalDependencyManager.source
    version_register, \* OptionalDependencyManager.version_register
    usage_register,   \* OptionalDependencyManager.usage_register
    spec_register,    \* OptionalDependencyManager.spec_register
    targets,          \* the decorated classes and functions
    instances,        \* the instances of the decorated classes
    last,             \* what the last operation returned or raised
    parsed            \* the grammar string last given to the decorator, parsed

envVars == <<installed, sysmodules>>
heapVars == <<specs, checks, imports, first>>
managerVars == <<source, version_register, usage_register, spec_register,
                 targets, instances>>
vars == <<installed, sysmodules, specs, checks, imports, first, source,
          version_register, usage_register, spec_register, targets, instances, last,
          parsed>>

----------------------------------------------------------------------------
(* Bounds of the model *)

MaxVersion == 1       \* installed versions range over 0..MaxVersion
MaxSpecs == 2         \* ModuleSpec objects constructed directly
MaxCount == 2         \* the counters of queries and imports saturate here
MaxTargets == 2       \* decorated classes and functions
MaxDeps == 2          \* descriptors of one decoration
MaxInstances == 1     \* instances of the decorated classes

----------------------------------------------------------------------------
(* Vocabulary *)

None == "None"
NoVersion == 0 - 1
NoModule == 0
Absent == 0 - 1       \* a key a dict does not hold
PreImported == 1      \* the handle of a module something else imported
ParentImported == 0 - 2   \* the handle of a package find_spec imported

ModuleNames == {"a", "a.s", ".r"}
Packages == {"a", "b"}
Versions == 0..MaxVersion
FinderOutcomes == {"loader", "no spec", "no loader"}
Aliases == ModuleNames \cup {"x"}

\* str.split(".") on the module names of the vocabulary
Split(name) ==
    CASE name = "a" -> <<"a">>
      [] name = "a.s" -> <<"a", "s">>
      [] name = ".r" -> <<"", "r">>

\* str.startswith(".")
StartsWithDot(name) == Len(Split(name)) > 1 /\ Split(name)[1] = ""

\* "." in name
HasDot(name) == Len(Split(name)) > 1

\* What find_spec may find, for every module name an import can reach
Finders == [{n \in ModuleNames : ~StartsWithDot(n)} -> FinderOutcomes]

----------------------------------------------------------------------------
(* packaging.specifiers.SpecifierSet on the specifier strings of the        *)
(* vocabulary: a valid string parses to its clauses, "bad" does not parse.  *)

DefaultSpecifiers == ">0.0.0,<9999.9999.9999"
DefaultUpper == 9999

SpecifierStrings == {"", ">=1", "<=0.0.0", "bad", DefaultSpecifiers}

InvalidSpecifier(s) == s = "bad"

Clauses(s) ==
    CASE s = "" -> <<>>
      [] s = ">=1" -> <<[op |-> ">=", v |-> 1]>>
      [] s = "<=0.0.0" -> <<[op |-> "<=", v |-> 0]>>
      [] s = DefaultSpecifiers ->
            <<[op |-> ">", v |-> 0], [op |-> "<", v |-> DefaultUpper]>>

ClauseHolds(c, ver) ==
    CASE c.op = ">=" -> ver >= c.v
      [] c.op = "<=" -> ver <= c.v
      [] c.op = ">" -> ver > c.v
      [] c.op = "<" -> ver < c.v

\* installed_version in specifier_set
Contains(s, ver) == \A k \in 1..Len(Clauses(s)) : ClauseHolds(Clauses(s)[k], ver)

----------------------------------------------------------------------------
(* ModuleSpec *)

\* the (module, installed_version, error_msg) tuple of load()
Tuple(module, ver, error) ==
    [module |-> module, installed_version |-> ver, error |-> error]

NoError == [kind |-> None, subject |-> None, version |-> NoVersion, requirement |-> None]

Error(kind, subject, ver, requirement) ==
    [kind |-> kind, subject |-> subject, version |-> ver, requirement |-> requirement]

\* _load_cache = None
NoCache == [set |-> FALSE, tuple |-> Tuple(NoModule, NoVersion, NoError)]

Cached(t) == [set |-> TRUE, tuple |-> t]

\* ModuleSpec(**kw): the dataclass constructor followed by __post_init__
ModuleSpec(kw) ==
    [module_name |-> kw.module_name,
     from_meta |-> kw.from_meta,
     specifiers |-> IF kw.specifiers = None /\ ~kw.from_meta
                    THEN DefaultSpecifiers ELSE kw.specifiers,
     alias |-> IF kw.alias = None THEN kw.module_name ELSE kw.alias,
     extra |-> kw.extra,
     distribution_name |-> kw.distribution_name,
     load_cache |-> NoCache]

\* package_name of load()
PackageName(spec) ==
    IF spec.distribution_name # None
    THEN spec.distribution_name
    ELSE IF HasDot(spec.module_name)
         THEN Split(spec.module_name)[1]
         ELSE spec.module_name

\* self.specifiers or ""
SpecifiersOrEmpty(spec) == IF spec.specifiers = None THEN "" ELSE spec.specifiers

Bump(n) == IF n < MaxCount THEN n + 1 ELSE n

RECURSIVE SumSeq(_)
SumSeq(s) == IF s = <<>> THEN 0 ELSE Head(s) + SumSeq(Tail(s))

\* module_from_spec(spec): a module object nothing else refers to yet
NewModule(h) == PreImported + 1 + SumSeq(h.imports)

\* The part of the state load() reads and writes
Heap == [specs |-> specs, sysmodules |-> sysmodules, checks |-> checks,
         imports |-> imports, first |-> first]

Outcome(h, raised, t) == [h |-> h, raised |-> raised, tuple |-> t]

\* self._load_cache = t; return self._load_cache
Memoize(h, i, t) ==
    Outcome([h EXCEPT !.specs[i].load_cache = Cached(t),
                      !.first[i] = IF h.first[i].set THEN h.first[i] ELSE Cached(t)],
            None, t)

\* find_spec(name) imports the parent package of a dotted name before it
\* looks for the module: the module cache it leaves
FindSpec(sysm, name) ==
    IF HasDot(name) /\ sysm[Split(name)[1]] = NoModule
    THEN [sysm EXCEPT ![Split(name)[1]] = ParentImported]
    ELSE sysm

\* the import step of load(), writing the module cache before it looks for
\* the module
\* Import, registering the module before looking for its import spec
ImportEager(h, i, ver, found) ==
    LET name == h.specs[i].module_name
        h0 == [h EXCEPT !.sysmodules[name] = NewModule(h)]
    IN  IF h.sysmodules[name] # NoModule
        THEN Memoize(h, i, Tuple(h.sysmodules[name], ver, NoError))
        ELSE IF found[name] = "no spec"
        THEN Memoize(h0, i, Tuple(NoModule, ver,
                                  Error("Cannot find module spec", name, NoVersion, None)))
        ELSE IF found[name] = "no loader"
        THEN Memoize(h0, i, Tuple(NoModule, ver,
                                  Error("has no loader", name, NoVersion, None)))
        ELSE Memoize([h0 EXCEPT !.imports[i] = Bump(h.imports[i])], i,
                     Tuple(NewModule(h), ver, NoError))

\* the import step of load(), without the test of sys.modules
\* Import without the test of the module cache
ImportAlways(h, i, ver, found) ==
    LET name == h.specs[i].module_name
        h0 == [h EXCEPT !.sysmodules = FindSpec(h.sysmodules, name)]
    IN  IF found[name] = "no spec"
        THEN Memoize(h0, i, Tuple(NoModule, ver,
                                  Error("Cannot find module spec", name, NoVersion, None)))
        ELSE IF found[name] = "no loader"
        THEN Memoize(h0, i, Tuple(NoModule, ver,
                                  Error("has no loader", name, NoVersion, None)))
        ELSE LET module == NewModule(h)
                 h1 == [h0 EXCEPT !.sysmodules[name] = module,
                                  !.imports[i] = Bump(h.imports[i])]
             IN Memoize(h1, i, Tuple(module, ver, NoError))

\* the import step of load(), lines 143-164
Import(h, i, ver, found) ==
    LET name == h.specs[i].module_name
        h0 == [h EXCEPT !.sysmodules = FindSpec(h.sysmodules, name)]
    IN  IF h.sysmodules[name] # NoModule
        THEN Memoize(h, i, Tuple(h.sysmodules[name], ver, NoError))
        ELSE IF found[name] = "no spec"
        THEN Memoize(h0, i, Tuple(NoModule, ver,
                                  Error("Cannot find module spec", name, NoVersion, None)))
        ELSE IF found[name] = "no loader"
        THEN Memoize(h0, i, Tuple(NoModule, ver,
                                  Error("has no loader", name, NoVersion, None)))
        ELSE LET module == NewModule(h)
                 h1 == [h0 EXCEPT !.sysmodules[name] = module,
                                  !.imports[i] = Bump(h.imports[i])]
             IN Memoize(h1, i, Tuple(module, ver, NoError))

\* Resolve, validating the specifier before asking whether the package is
\* installed
ResolveSpecifierFirst(h, i, env, found) ==
    LET spec == h.specs[i]
        package_name == PackageName(spec)
        installed_version == env[package_name]
        h1 == [h EXCEPT !.checks[i] = Bump(h.checks[i])]
    IN  IF InvalidSpecifier(SpecifiersOrEmpty(spec))
        THEN Memoize(h1, i, Tuple(NoModule, installed_version,
                                  Error("is not a valid specifier", spec.specifiers,
                                        NoVersion, None)))
        ELSE IF installed_version = NoVersion
        THEN Memoize(h1, i, Tuple(NoModule, NoVersion,
                                  Error("is not installed", package_name, NoVersion, None)))
        ELSE IF ~Contains(SpecifiersOrEmpty(spec), installed_version)
        THEN Memoize(h1, i, Tuple(NoModule, installed_version,
                                  Error("does not meet requirement", package_name,
                                        installed_version, SpecifiersOrEmpty(spec))))
        ELSE Import(h1, i, installed_version, found)

\* Resolve, importing the module before comparing the installed version with
\* the range
ResolveImportFirst(h, i, env, found) ==
    LET spec == h.specs[i]
        package_name == PackageName(spec)
        installed_version == env[package_name]
        h1 == [h EXCEPT !.checks[i] = Bump(h.checks[i])]
    IN  IF installed_version = NoVersion
        THEN Memoize(h1, i, Tuple(NoModule, NoVersion,
                                  Error("is not installed", package_name, NoVersion, None)))
        ELSE IF InvalidSpecifier(SpecifiersOrEmpty(spec))
        THEN Memoize(h1, i, Tuple(NoModule, installed_version,
                                  Error("is not a valid specifier", spec.specifiers,
                                        NoVersion, None)))
        ELSE IF ~Contains(SpecifiersOrEmpty(spec), installed_version)
        THEN Memoize(Import(h1, i, installed_version, found).h, i,
                     Tuple(NoModule, installed_version,
                           Error("does not meet requirement", package_name,
                                 installed_version, SpecifiersOrEmpty(spec))))
        ELSE Import(h1, i, installed_version, found)

\* Resolve, taking a specifier that does not parse for the empty one
ResolveInvalidAsAny(h, i, env, found) ==
    LET spec == h.specs[i]
        package_name == PackageName(spec)
        installed_version == env[package_name]
        h1 == [h EXCEPT !.checks[i] = Bump(h.checks[i])]
    IN  IF installed_version = NoVersion
        THEN Memoize(h1, i, Tuple(NoModule, NoVersion,
                                  Error("is not installed", package_name, NoVersion, None)))
        ELSE IF InvalidSpecifier(SpecifiersOrEmpty(spec))
        THEN Import(h1, i, installed_version, found)
        ELSE IF ~Contains(SpecifiersOrEmpty(spec), installed_version)
        THEN Memoize(h1, i, Tuple(NoModule, installed_version,
                                  Error("does not meet requirement", package_name,
                                        installed_version, SpecifiersOrEmpty(spec))))
        ELSE Import(h1, i, installed_version, found)

\* the steps of load() after the cache test and the relative-import test
Resolve(h, i, env, found) ==
    LET spec == h.specs[i]
        package_name == PackageName(spec)
        installed_version == env[package_name]
        h1 == [h EXCEPT !.checks[i] = Bump(h.checks[i])]
    IN  IF installed_version = NoVersion
        THEN Memoize(h1, i, Tuple(NoModule, NoVersion,
                                  Error("is not installed", package_name, NoVersion, None)))
        ELSE IF InvalidSpecifier(SpecifiersOrEmpty(spec))
        THEN Memoize(h1, i, Tuple(NoModule, installed_version,
                                  Error("is not a valid specifier", spec.specifiers,
                                        NoVersion, None)))
        ELSE IF ~Contains(SpecifiersOrEmpty(spec), installed_version)
        THEN Memoize(h1, i, Tuple(NoModule, installed_version,
                                  Error("does not meet requirement", package_name,
                                        installed_version, SpecifiersOrEmpty(spec))))
        ELSE Import(h1, i, installed_version, found)

\* load() without the test of _load_cache
LoadNoMemo(h, i, env, found) ==
    IF StartsWithDot(h.specs[i].module_name)
    THEN Outcome(h, "ValueError", Tuple(NoModule, NoVersion, NoError))
    ELSE Resolve(h, i, env, found)

\* load() returning _load_cache only when it holds a module
LoadRetryFailed(h, i, env, found) ==
    IF h.specs[i].load_cache.set /\ h.specs[i].load_cache.tuple.module # NoModule
    THEN Outcome(h, None, h.specs[i].load_cache.tuple)
    ELSE IF StartsWithDot(h.specs[i].module_name)
    THEN Outcome(h, "ValueError", Tuple(NoModule, NoVersion, NoError))
    ELSE Resolve(h, i, env, found)

\* load() reporting a relative module name as one more failure tuple
LoadRelativeAsFailure(h, i, env, found) ==
    IF h.specs[i].load_cache.set
    THEN Outcome(h, None, h.specs[i].load_cache.tuple)
    ELSE IF StartsWithDot(h.specs[i].module_name)
    THEN Memoize(h, i, Tuple(NoModule, NoVersion,
                             Error("Relative imports are not supported",
                                   h.specs[i].module_name, NoVersion, None)))
    ELSE Resolve(h, i, env, found)

\* ModuleSpec.load() on the i-th ModuleSpec, in the environment env (installed
\* packages) and with find_spec finding found[m] for a module m
Load(h, i, env, found) ==
    IF h.specs[i].load_cache.set
    THEN Outcome(h, None, h.specs[i].load_cache.tuple)
    ELSE IF StartsWithDot(h.specs[i].module_name)
    THEN Outcome(h, "ValueError", Tuple(NoModule, NoVersion, NoError))
    ELSE Resolve(h, i, env, found)

----------------------------------------------------------------------------
(* MetaSource: the metadata of the manager's source package *)

SourceExtras == {"ml", "dev"}

\* Requires-Dist of the source package; marker is the extra of an
\* `extra == "..."` marker, or None
SourceRequires ==
    <<[name |-> "a", marker |-> "dev", specifier |-> "<=0.0.0"],
      [name |-> "a", marker |-> "ml", specifier |-> ">=1"],
      [name |-> "a", marker |-> "ml", specifier |-> "<=0.0.0"],
      [name |-> "a.s", marker |-> None, specifier |-> ""]>>

\* requirement.marker.evaluate(environment={"extra": extra})
MarkerEvaluate(marker, extra) == marker = (IF extra = None THEN "" ELSE extra)

\* the index of the first requirement from position k on that the loop of
\* get_specifier returns, 0 if it falls through
RECURSIVE FirstMatch(_, _, _, _)
FirstMatch(requires, target, extra, k) ==
    IF k > Len(requires) THEN 0
    ELSE IF target = requires[k].name
            /\ (requires[k].marker = None \/ MarkerEvaluate(requires[k].marker, extra))
    THEN k
    ELSE FirstMatch(requires, target, extra, k + 1)

\* MetaSource.get_specifier(target, extra)
GetSpecifier(target, extra) ==
    IF extra # None /\ extra \notin SourceExtras
    THEN [raised |-> "ValueError", value |-> None]
    ELSE LET k == FirstMatch(SourceRequires, target, extra, 1) IN
         IF k = 0
         THEN [raised |-> "ImportError", value |-> None]
         ELSE [raised |-> None, value |-> SourceRequires[k].specifier]

----------------------------------------------------------------------------
(* OptionalDependencyManager *)

\* A value of the `modules` argument: module_name -> info, in insertion
\* order, as the list _flatten_module_info makes of it.  A key that is not
\* given is None (from_meta: FALSE, which _validate_input makes of it).
Info(module_name, from_meta, specifiers, alias, extra, distribution_name) ==
    [module_name |-> module_name, from_meta |-> from_meta, specifiers |-> specifiers,
     alias |-> alias, extra |-> extra, distribution_name |-> distribution_name]

\* OptionalDependencyManager._validate_input(module_dict)
ValidateInput(src, mod) ==
    IF mod.specifiers = None /\ mod.from_meta
    THEN IF src # None
         THEN IF mod.extra # None
              THEN LET r == GetSpecifier(mod.module_name, mod.extra) IN
                   [raised |-> r.raised,
                    mod |-> IF r.raised = None
                            THEN [mod EXCEPT !.specifiers = r.value] ELSE mod]
              ELSE [raised |-> "KeyError", mod |-> mod]
         ELSE [raised |-> "ValueError", mod |-> mod]
    ELSE [raised |-> None, mod |-> mod]

\* for mod in modules_flattend: odm._validate_input(mod)
RECURSIVE ValidateAll(_, _)
ValidateAll(src, mods) ==
    IF mods = <<>> THEN [raised |-> None, mods |-> <<>>]
    ELSE LET r == ValidateInput(src, Head(mods)) IN
         IF r.raised # None THEN [raised |-> r.raised, mods |-> <<>>]
         ELSE LET rest == ValidateAll(src, Tail(mods)) IN
              [raised |-> rest.raised,
               mods |-> IF rest.raised = None THEN <<r.mod>> \o rest.mods ELSE <<>>]

\* the descriptors the validation loop has passed when it ends
RECURSIVE ValidatedPrefix(_, _)
ValidatedPrefix(src, mods) ==
    IF mods = <<>> THEN <<>>
    ELSE LET r == ValidateInput(src, Head(mods)) IN
         IF r.raised # None THEN <<>>
         ELSE <<r.mod>> \o ValidatedPrefix(src, Tail(mods))

\* The manager's registers
Registry == [usage_register |-> usage_register, spec_register |-> spec_register]

\* the body of the registration loop, listing a consumer once per module
RegisterOneDedup(reg, i, module_name, target_name) ==
    [usage_register |->
        [reg.usage_register EXCEPT
            ![module_name] = IF \E k \in 1..Len(@) : @[k] = target_name
                             THEN @ ELSE Append(@, target_name)],
     spec_register |->
        Append(reg.spec_register, [spec |-> i, used_by |-> target_name])]

\* the body of the registration loop, starting the consumer list anew
RegisterOneReset(reg, i, module_name, target_name) ==
    [usage_register |->
        [reg.usage_register EXCEPT ![module_name] = <<target_name>>],
     spec_register |->
        Append(reg.spec_register, [spec |-> i, used_by |-> target_name])]

\* the body of the registration loop, for the ModuleSpec at heap index i
RegisterOne(reg, i, module_name, target_name) ==
    [usage_register |->
        [reg.usage_register EXCEPT ![module_name] = Append(@, target_name)],
     spec_register |->
        Append(reg.spec_register, [spec |-> i, used_by |-> target_name])]

\* for spec in module_specs: register usage and spec; the k-th ModuleSpec of
\* the decoration is at heap index base + k
RECURSIVE RegisterAll(_, _, _, _, _)
RegisterAll(reg, mods, base, k, target_name) ==
    IF k > Len(mods) THEN reg
    ELSE RegisterAll(RegisterOne(reg, base + k, mods[k].module_name, target_name),
                     mods, base, k + 1, target_name)

EmptyMapping == [al \in Aliases |-> Absent]

\* _format_dependency_error(spec, installed_version, source): the line it
\* formats, field by field ("None" where the text leaves the part out)
FormatDependencyError(spec, installed_version, src) ==
    LET pkg_name == IF spec.distribution_name # None
                    THEN spec.distribution_name
                    ELSE Split(spec.module_name)[1]
        hinted == spec.extra # None /\ src # None
    IN  [pkg_name |-> pkg_name,
         installed |-> installed_version,
         requires |-> IF installed_version = NoVersion
                      THEN IF spec.specifiers # None /\ spec.specifiers # ""
                              /\ spec.specifiers # DefaultSpecifiers
                           THEN spec.specifiers ELSE None
                      ELSE spec.specifiers,
         hint_source |-> IF hinted THEN src ELSE None,
         hint_extra |-> IF hinted THEN spec.extra ELSE None]

\* The state a loading loop runs on
LoopState(h, vr, cache) ==
    [h |-> h, version_register |-> vr, cache |-> cache, errors |-> <<>>,
     raised |-> None, loads |-> 0]

\* the body of the loading loop, keeping the module under its module name
LoadStepKeyedByName(st, i, env, found, src) ==
    LET r == Load(st.h, i, env, found)
        spec == r.h.specs[i]
        t == r.tuple
    IN  IF r.raised # None
        THEN [st EXCEPT !.h = r.h, !.raised = r.raised, !.loads = @ + 1]
        ELSE [st EXCEPT
                !.h = r.h,
                !.loads = @ + 1,
                !.cache[spec.module_name] = t.module,
                !.version_register[spec.module_name] =
                    IF t.installed_version # NoVersion THEN t.installed_version ELSE @,
                !.errors = IF t.module = NoModule
                           THEN Append(@, FormatDependencyError(spec, t.installed_version, src))
                           ELSE @]

\* the body of the loading loop, recording the installed version without
\* the test `installed_version is not None`
LoadStepRecordsAlways(st, i, env, found, src) ==
    LET r == Load(st.h, i, env, found)
        spec == r.h.specs[i]
        t == r.tuple
    IN  IF r.raised # None
        THEN [st EXCEPT !.h = r.h, !.raised = r.raised, !.loads = @ + 1]
        ELSE [st EXCEPT
                !.h = r.h,
                !.loads = @ + 1,
                !.cache[spec.alias] = t.module,
                !.version_register[spec.module_name] = t.installed_version,
                !.errors = IF t.module = NoModule
                           THEN Append(@, FormatDependencyError(spec, t.installed_version, src))
                           ELSE @]

\* the body of the loading loop of the checker and of the wrapper, for the
\* ModuleSpec at heap index i
LoadStep(st, i, env, found, src) ==
    LET r == Load(st.h, i, env, found)
        spec == r.h.specs[i]
        t == r.tuple
    IN  IF r.raised # None
        THEN [st EXCEPT !.h = r.h, !.raised = r.raised, !.loads = @ + 1]
        ELSE [st EXCEPT
                !.h = r.h,
                !.loads = @ + 1,
                !.cache[spec.alias] = t.module,
                !.version_register[spec.module_name] =
                    IF t.installed_version # NoVersion THEN t.installed_version ELSE @,
                !.errors = IF t.module = NoModule
                           THEN Append(@, FormatDependencyError(spec, t.installed_version, src))
                           ELSE @]

\* the loading loop, ended by the first descriptor that fails
RECURSIVE LoadAllStopAtFirst(_, _, _, _, _, _)
LoadAllStopAtFirst(st, module_specs, k, env, found, src) ==
    IF k > Len(module_specs) \/ st.raised # None \/ st.errors # <<>> THEN st
    ELSE LoadAllStopAtFirst(LoadStep(st, module_specs[k], env, found, src),
                            module_specs, k + 1, env, found, src)

\* for spec in module_specs: ... (an exception ends the loop)
RECURSIVE LoadAll(_, _, _, _, _, _)
LoadAll(st, module_specs, k, env, found, src) ==
    IF k > Len(module_specs) \/ st.raised # None THEN st
    ELSE LoadAll(LoadStep(st, module_specs[k], env, found, src),
                 module_specs, k + 1, env, found, src)

\* the loading loop without the test of `errors`
LoadModulesSilent(h, vr, cache, module_specs, env, found, src) ==
    LoadAll(LoopState(h, vr, cache), module_specs, 1, env, found, src)

\* the loop and the test of `errors` that follow `if not loaded:`
LoadModules(h, vr, cache, module_specs, env, found, src) ==
    LET st == LoadAll(LoopState(h, vr, cache), module_specs, 1, env, found, src) IN
    IF st.raised = None /\ st.errors # <<>>
    THEN [st EXCEPT !.raised = "ImportError"]
    ELSE st

\* ModuleReport
ModuleReport(spec, installed_version, status, used_by) ==
    [module_name |-> spec.module_name, specifier |-> spec.specifiers,
     extra |-> spec.extra, installed_version |-> installed_version,
     status |-> status, used_by |-> used_by]

\* the body of the loop of report(), for the k-th entry of spec_register
ReportStep(st, entry, env, found) ==
    LET r == Load(st.h, entry.spec, env, found)
        spec == r.h.specs[entry.spec]
        t == r.tuple
        status == IF t.module # NoModule THEN "satisfied"
                  ELSE IF t.installed_version = NoVersion THEN "missing"
                  ELSE "version_mismatch"
    IN  IF r.raised # None
        THEN [st EXCEPT !.h = r.h, !.raised = r.raised, !.loads = @ + 1]
        ELSE [st EXCEPT
                !.h = r.h,
                !.loads = @ + 1,
                !.version_register[spec.module_name] =
                    IF t.installed_version # NoVersion THEN t.installed_version ELSE @,
                !.reports = Append(@, ModuleReport(spec, t.installed_version,
                                                   status, entry.used_by))]

\* the body of the loop of report(), reporting a module name once
ReportStepOncePerModule(st, entry, env, found) ==
    IF \E j \in 1..Len(st.reports) :
            st.reports[j].module_name = st.h.specs[entry.spec].module_name
    THEN st
    ELSE ReportStep(st, entry, env, found)

\* one turn of the loop of report()
ReportEntry(st, entry, env, found) == ReportStep(st, entry, env, found)

\* for spec, used_by in self.spec_register: ...
RECURSIVE ReportAll(_, _, _, _, _)
ReportAll(st, reg, k, env, found) ==
    IF k > Len(reg) \/ st.raised # None THEN st
    ELSE ReportAll(ReportEntry(st, reg[k], env, found), reg, k + 1, env, found)

----------------------------------------------------------------------------
(* The compact grammar name[@extra_or_group][->distribution_name]           *)
(* [specifier][ as alias] of the decorator's string arguments.  A string is  *)
(* a sequence of tokens: a space, "@", "->", a version expression, or a     *)
(* word ("as" is a word that separates the alias when spaces surround it).  *)

SpecifierTokens == {">=1"}

IsWord(t) == t \notin ({" ", "@", "->"} \cup SpecifierTokens)

\* the first position from k on that holds no space
RECURSIVE SkipSpaces(_, _)
SkipSpaces(s, k) ==
    IF k <= Len(s) /\ s[k] = " " THEN SkipSpaces(s, k + 1) ELSE k

ParseError == [raised |-> "ValueError", info |-> Info(None, FALSE, None, None, None, None)]

\* an optional `sep token` part at position k: the token, None if the part
\* is absent, and the position after it; k = 0 if the token is missing
Optional(s, k, sep) ==
    IF k <= Len(s) /\ s[k] = sep
    THEN LET j == SkipSpaces(s, k + 1) IN
         IF j <= Len(s) /\ IsWord(s[j])
         THEN [token |-> s[j], k |-> SkipSpaces(s, j + 1)]
         ELSE [token |-> None, k |-> 0]
    ELSE [token |-> None, k |-> k]

\* the parser, `@token` not forcing from_meta
ParseModuleSpecKeepsFromMeta(s) ==
    LET k0 == SkipSpaces(s, 1) IN
    IF k0 > Len(s) \/ ~IsWord(s[k0]) THEN ParseError
    ELSE
    LET extra == Optional(s, SkipSpaces(s, k0 + 1), "@") IN
    IF extra.k = 0 THEN ParseError
    ELSE
    LET dist == Optional(s, extra.k, "->") IN
    IF dist.k = 0 THEN ParseError
    ELSE
    LET given == dist.k <= Len(s) /\ s[dist.k] \in SpecifierTokens
        k4 == IF given THEN SkipSpaces(s, dist.k + 1) ELSE dist.k
        spaced == k4 > 1 /\ k4 < Len(s) /\ s[k4 - 1] = " " /\ s[k4 + 1] = " "
        alias == IF spaced THEN Optional(s, k4, "as") ELSE [token |-> None, k |-> k4]
    IN  IF alias.k = 0 \/ alias.k <= Len(s) THEN ParseError
        ELSE [raised |-> None,
              info |-> Info(s[k0], FALSE,
                            IF given THEN s[dist.k] ELSE None,
                            alias.token, extra.token, dist.token)]

\* _parse_module_spec(s): the descriptor a grammar string stands for, a key
\* the string does not give being None
ParseModuleSpec(s) ==
    LET k0 == SkipSpaces(s, 1) IN
    IF k0 > Len(s) \/ ~IsWord(s[k0]) THEN ParseError
    ELSE
    LET extra == Optional(s, SkipSpaces(s, k0 + 1), "@") IN
    IF extra.k = 0 THEN ParseError
    ELSE
    LET dist == Optional(s, extra.k, "->") IN
    IF dist.k = 0 THEN ParseError
    ELSE
    LET given == dist.k <= Len(s) /\ s[dist.k] \in SpecifierTokens
        k4 == IF given THEN SkipSpaces(s, dist.k + 1) ELSE dist.k
        spaced == k4 > 1 /\ k4 < Len(s) /\ s[k4 - 1] = " " /\ s[k4 + 1] = " "
        alias == IF spaced THEN Optional(s, k4, "as") ELSE [token |-> None, k |-> k4]
    IN  IF alias.k = 0 \/ alias.k <= Len(s) THEN ParseError
        ELSE [raised |-> None,
              info |-> Info(s[k0], extra.token # None,
                            IF given THEN s[dist.k] ELSE None,
                            alias.token, extra.token, dist.token)]

\* nothing parsed yet
NotParsed == [string |-> <<>>, raised |-> None, info |-> Info(None, FALSE, None, None, None, None)]

----------------------------------------------------------------------------
(* The state machine *)

NoTuple == Tuple(NoModule, NoVersion, NoError)

\* What an operation op on the object arg returned or raised
Last(op, arg, raised) ==
    [op |-> op, arg |-> arg, raised |-> raised, tuple |-> NoTuple,
     mapping |-> EmptyMapping, message |-> <<>>, reports |-> <<>>,
     called |-> FALSE, loads |-> 0, validated |-> 0]

\* The inputs the operations are tried on
DirectInputs ==
    {Info("a", FALSE, None, None, None, None),
     Info("a", FALSE, ">=1", None, None, None),
     Info("a", FALSE, "bad", None, None, None),
     Info("a", TRUE, None, None, None, None),
     Info("a.s", FALSE, None, None, None, None),
     Info("a.s", FALSE, None, None, None, "b"),
     Info(".r", FALSE, None, None, None, None)}

ManagedInputs ==
    {Info("a", FALSE, None, None, None, None),
     Info("a", FALSE, ">=1", "x", "ml", None),
     Info("a", TRUE, None, None, "ml", None),
     Info("a", TRUE, ">=1", None, "zz", None),
     Info("a.s", FALSE, None, None, None, "b"),
     Info("a.s", TRUE, None, None, "zz", None),
     Info("a.s", TRUE, None, None, None, None),
     Info(".r", FALSE, None, None, None, None)}

\* dicts of one or two descriptors: the keys of a dict are distinct
ModulesInputs ==
    {<<x>> : x \in ManagedInputs}
    \cup {p \in ManagedInputs \X ManagedInputs : p[1].module_name # p[2].module_name}

TargetInputs ==
    {[kind |-> "class", name |-> "K"],
     [kind |-> "function", name |-> "f"],
     [kind |-> "other", name |-> "o"]}

Init ==
    /\ installed \in [Packages -> Versions \cup {NoVersion}]
    /\ sysmodules = [m \in ModuleNames |-> NoModule]
    /\ specs = <<>>
    /\ checks = <<>>
    /\ imports = <<>>
    /\ first = <<>>
    /\ source \in {None, "src"}
    /\ version_register = [m \in ModuleNames |-> NoVersion]
    /\ usage_register = [m \in ModuleNames |-> <<>>]
    /\ spec_register = <<>>
    /\ targets = <<>>
    /\ instances = <<>>
    /\ last = Last("init", 0, None)
    /\ parsed = NotParsed

\* a ModuleSpec that validates and imports as it is constructed
AllocateEager(h, kw) ==
    Load([h EXCEPT !.specs = Append(@, ModuleSpec(kw)),
                   !.checks = Append(@, 0),
                   !.imports = Append(@, 0),
                   !.first = Append(@, NoCache)],
         Len(h.specs) + 1, installed,
         [n \in {m \in ModuleNames : ~StartsWithDot(m)} |-> "loader"]).h

\* the heap with one more ModuleSpec, made of kw
Allocate(h, kw) ==
    [h EXCEPT !.specs = Append(@, ModuleSpec(kw)),
              !.checks = Append(@, 0),
              !.imports = Append(@, 0),
              !.first = Append(@, NoCache)]

RECURSIVE AllocateAll(_, _)
AllocateAll(h, mods) ==
    IF mods = <<>> THEN h ELSE AllocateAll(Allocate(h, Head(mods)), Tail(mods))

SetHeap(h) ==
    /\ specs' = h.specs
    /\ sysmodules' = h.sysmodules
    /\ checks' = h.checks
    /\ imports' = h.imports
    /\ first' = h.first

\* The environment changes: a package is installed, upgraded or removed
EnvChange(p, v) ==
    /\ installed[p] # v
    /\ installed' = [installed EXCEPT ![p] = v]
    /\ last' = Last("env", 0, None)
    /\ UNCHANGED <<parsed, sysmodules, heapVars, managerVars>>

\* Something else imports a module
ExternalImport(m) ==
    /\ ~StartsWithDot(m)
    /\ sysmodules[m] = NoModule
    /\ sysmodules' = [sysmodules EXCEPT ![m] = PreImported]
    /\ last' = Last("env", 0, None)
    /\ UNCHANGED <<parsed, installed, heapVars, managerVars>>

\* spec = ModuleSpec(**kw)
NewSpec(kw) ==
    /\ Len(specs) < MaxSpecs
    /\ SetHeap(Allocate(Heap, kw))
    /\ last' = Last("construct", Len(specs) + 1, None)
    /\ UNCHANGED <<parsed, installed, managerVars>>

\* spec.load()
LoadSpec(i, found) ==
    /\ i \in 1..Len(specs)
    /\ \E r \in {Load(Heap, i, installed, found)} :
        /\ SetHeap(r.h)
        /\ last' = [Last("load", i, r.raised) EXCEPT !.tuple = r.tuple, !.loads = 1]
    /\ UNCHANGED <<parsed, installed, managerVars>>

\* dependencies_decorator(target) without the test of the target's kind
DecoratorAnyTarget(src, reg, h, mods, tgt) ==
    LET v == ValidateAll(src, mods) IN
    IF v.raised # None
    THEN [raised |-> v.raised, h |-> h, reg |-> reg, made |-> <<>>]
    ELSE [raised |-> None,
          h |-> AllocateAll(h, v.mods),
          reg |-> RegisterAll(reg, v.mods, Len(h.specs), 1, tgt.name),
          made |-> <<[kind |-> tgt.kind, name |-> tgt.name,
                      module_specs |-> [k \in 1..Len(v.mods) |-> Len(h.specs) + k],
                      loaded |-> FALSE, modules_cache |-> EmptyMapping]>>]

\* dependencies_decorator(target) constructing and registering each
\* descriptor as soon as it is validated
DecoratorRegistersAsValidated(src, reg, h, mods, tgt) ==
    LET v == ValidateAll(src, mods)
        done == ValidatedPrefix(src, mods)
    IN  IF tgt.kind \notin {"class", "function"}
        THEN [raised |-> "TypeError", h |-> h, reg |-> reg, made |-> <<>>]
        ELSE [raised |-> v.raised,
              h |-> AllocateAll(h, done),
              reg |-> RegisterAll(reg, done, Len(h.specs), 1, tgt.name),
              made |-> IF v.raised # None THEN <<>>
                       ELSE <<[kind |-> tgt.kind, name |-> tgt.name,
                               module_specs |-> [k \in 1..Len(v.mods) |-> Len(h.specs) + k],
                               loaded |-> FALSE, modules_cache |-> EmptyMapping]>>]

\* dependencies_decorator(target): what it raises, and the heap, the
\* registers and the decorated target it leaves
Decorator(src, reg, h, mods, tgt) ==
    LET v == ValidateAll(src, mods)
        raised == IF tgt.kind \notin {"class", "function"} THEN "TypeError"
                  ELSE v.raised
    IN  IF raised # None
        THEN [raised |-> raised, h |-> h, reg |-> reg, made |-> <<>>]
        ELSE [raised |-> None,
              h |-> AllocateAll(h, v.mods),
              reg |-> RegisterAll(reg, v.mods, Len(h.specs), 1, tgt.name),
              made |-> <<[kind |-> tgt.kind, name |-> tgt.name,
                          module_specs |-> [k \in 1..Len(v.mods) |-> Len(h.specs) + k],
                          loaded |-> FALSE, modules_cache |-> EmptyMapping]>>]

\* odm(modules)(target): the decorator applied to a target
Decorate(mods, tgt) ==
    /\ Len(targets) < MaxTargets
    /\ Len(mods) <= MaxDeps
    /\ Len(specs) + Len(mods) <= MaxSpecs
    /\ \E d \in {Decorator(source, Registry, Heap, mods, tgt)} :
        /\ SetHeap(d.h)
        /\ usage_register' = d.reg.usage_register
        /\ spec_register' = d.reg.spec_register
        /\ targets' = targets \o d.made
        /\ last' = [Last("decorate", IF d.raised = None THEN Len(targets) + 1 ELSE 0,
                         d.raised)
                    EXCEPT !.validated = IF d.raised = "TypeError" THEN 0
                                         ELSE Len(ValidatedPrefix(source, mods))]
    /\ UNCHANGED <<parsed, installed, source, version_register, instances>>

\* the tokens of an optional part
Part(before, sep, after, token) ==
    IF token = None THEN <<>> ELSE before \o sep \o after \o <<token>>

\* The grammar string of a descriptor, with or without the optional spaces
\* at its ends (ends), around "@" and "->" and before the version expression
\* (inner), and doubling the spaces around "as" (wide)
Build(d, ends, inner, wide) ==
    LET e == IF ends THEN <<" ", " ">> ELSE <<>>
        i == IF inner THEN <<" ">> ELSE <<>>
        w == IF wide THEN <<" ", " ">> ELSE <<" ">>
    IN  e \o <<d.module_name>>
          \o Part(i, <<"@">>, i, d.extra)
          \o Part(i, <<"->">>, i, d.distribution_name)
          \o Part(i, <<>>, <<>>, d.specifiers)
          \o Part(w, <<"as">>, w, d.alias)
          \o e

\* the descriptors the grammar strings of the model stand for
GrammarDescriptors ==
    {Info(n, e # None, sp, al, e, dn) :
        n \in {"a"}, e \in {None, "ml"}, sp \in {None} \cup SpecifierTokens,
        al \in {None, "x"}, dn \in {None, "b"}}

\* strings the grammar does not derive
Malformed ==
    {<<>>, <<" ">>, <<"@", "ml">>, <<"a", "@">>, <<"a", "->", " ">>,
     <<"a", " ", "as">>, <<"a", "as", "x">>, <<"a", ">=1", "@", "ml">>,
     <<"a", "->", "b", "@", "ml">>, <<"a", " ", "as", " ", "x", " ", "b">>}

GrammarStrings ==
    {Build(d, ends, inner, wide) :
        d \in GrammarDescriptors, ends \in BOOLEAN, inner \in BOOLEAN, wide \in BOOLEAN}
    \cup Malformed

\* odm(s)(target) for a grammar string s: the string is parsed and the
\* descriptor goes the way of a descriptor given as a record
DecorateGrammar(s, tgt) ==
    /\ Len(targets) < MaxTargets
    /\ Len(specs) < MaxSpecs
    /\ \E r \in {ParseModuleSpec(s)} :
        /\ parsed' = [string |-> s, raised |-> r.raised, info |-> r.info]
        /\ \E d \in {IF tgt.kind \notin {"class", "function"}
                     THEN Decorator(source, Registry, Heap, <<>>, tgt)
                     ELSE IF r.raised # None
                     THEN [raised |-> r.raised, h |-> Heap, reg |-> Registry, made |-> <<>>]
                     ELSE Decorator(source, Registry, Heap, <<r.info>>, tgt)} :
            /\ SetHeap(d.h)
            /\ usage_register' = d.reg.usage_register
            /\ spec_register' = d.reg.spec_register
            /\ targets' = targets \o d.made
            /\ last' = Last("decorate", IF d.raised = None THEN Len(targets) + 1 ELSE 0,
                            d.raised)
    /\ UNCHANGED <<installed, source, version_register, instances>>

\* OptionalDependencyChecker.__init__: the fields of a new instance
CheckerInit(t) == [cls |-> t, loaded |-> FALSE, cache |-> EmptyMapping]

\* instance = Target(), while fewer than n instances exist
InstantiateUpTo(t, n) ==
    /\ t \in 1..Len(targets)
    /\ targets[t].kind = "class"
    /\ Len(instances) < n
    /\ instances' = Append(instances, CheckerInit(t))
    /\ last' = Last("instantiate", Len(instances) + 1, None)
    /\ UNCHANGED <<parsed, installed, sysmodules, heapVars, source, version_register,
                   usage_register, spec_register, targets>>

\* instance = Target()
Instantiate(t) == InstantiateUpTo(t, MaxInstances)

\* What a use of a target did: what it raised, the mapping it returned or
\* injected, and the state it leaves
Used(loaded, cache, st, called) ==
    [loaded |-> loaded, cache |-> cache, h |-> st.h,
     version_register |-> st.version_register, raised |-> st.raised,
     mapping |-> IF st.raised = None THEN cache ELSE EmptyMapping,
     message |-> IF st.raised = "ImportError" THEN st.errors ELSE <<>>,
     called |-> called, loads |-> st.loads]

\* OptionalDependencyChecker.modules, on an instance with the fields
\* (loaded, cache) of a class decorated with module_specs
CheckerModules(loaded, cache, module_specs, h, vr, env, found, src) ==
    IF loaded
    THEN Used(TRUE, cache, LoopState(h, vr, cache), FALSE)
    ELSE LET st == LoadModules(h, vr, cache, module_specs, env, found, src)
         IN  Used(st.raised = None, st.cache, st, FALSE)

\* instance.modules
AccessModules(n, found) ==
    /\ n \in 1..Len(instances)
    /\ \E u \in {CheckerModules(instances[n].loaded, instances[n].cache,
                                targets[instances[n].cls].module_specs,
                                Heap, version_register, installed, found, source)} :
        /\ SetHeap(u.h)
        /\ version_register' = u.version_register
        /\ instances' = [instances EXCEPT ![n].cache = u.cache, ![n].loaded = u.loaded]
        /\ last' = [Last("modules", n, u.raised) EXCEPT
                !.mapping = u.mapping, !.message = u.message, !.loads = u.loads]
    /\ UNCHANGED <<parsed, installed, source, usage_register, spec_register, targets>>

\* the wrapper without its `loaded` flag
WrapperReloads(loaded, cache, module_specs, h, vr, env, found, src) ==
    LET st == LoadModules(h, vr, cache, module_specs, env, found, src)
    IN  Used(st.raised = None, st.cache, st, st.raised = None)

\* the wrapper setting its `loaded` flag whether loading failed or not
WrapperLoadedOnFailure(loaded, cache, module_specs, h, vr, env, found, src) ==
    IF loaded
    THEN Used(TRUE, cache, LoopState(h, vr, cache), TRUE)
    ELSE LET st == LoadModules(h, vr, cache, module_specs, env, found, src)
         IN  Used(st.raised # "ValueError", st.cache, st, st.raised = None)

\* wrapper(*args, **kwargs), on a wrapper with the closure variables
\* (loaded, modules_cache) of a function decorated with module_specs
Wrapper(loaded, cache, module_specs, h, vr, env, found, src) ==
    IF loaded
    THEN Used(TRUE, cache, LoopState(h, vr, cache), TRUE)
    ELSE LET st == LoadModules(h, vr, cache, module_specs, env, found, src)
         IN  Used(st.raised = None, st.cache, st, st.raised = None)

\* func(...): a call of a decorated function
CallFunction(t, found) ==
    /\ t \in 1..Len(targets)
    /\ targets[t].kind = "function"
    /\ \E u \in {Wrapper(targets[t].loaded, targets[t].modules_cache,
                         targets[t].module_specs,
                         Heap, version_register, installed, found, source)} :
        /\ SetHeap(u.h)
        /\ version_register' = u.version_register
        /\ targets' = [targets EXCEPT ![t].modules_cache = u.cache, ![t].loaded = u.loaded]
        /\ last' = [Last("call", t, u.raised) EXCEPT
                !.mapping = u.mapping, !.message = u.message,
                !.called = u.called, !.loads = u.loads]
    /\ UNCHANGED <<parsed, installed, source, usage_register, spec_register, instances>>

\* OptionalDependencyManager.report()
ReportOf(reg, h, vr, env, found) ==
    ReportAll([h |-> h, version_register |-> vr, reports |-> <<>>,
               raised |-> None, loads |-> 0],
              reg, 1, env, found)

\* odm.report()
Report(found) ==
    /\ \E st \in {ReportOf(spec_register, Heap, version_register, installed, found)} :
        /\ SetHeap(st.h)
        /\ version_register' = st.version_register
        /\ last' = [Last("report", 0, st.raised) EXCEPT
                !.reports = IF st.raised = None THEN st.reports ELSE <<>>,
                !.loads = st.loads]
    /\ UNCHANGED <<parsed, installed, source, usage_register, spec_register, targets, instances>>

\* ModuleSpec objects used on their own
NextLoad ==
    \/ \E kw \in DirectInputs : NewSpec(kw)
    \/ \E i \in 1..Len(specs), found \in Finders : LoadSpec(i, found)
    \/ \E p \in Packages, v \in Versions \cup {NoVersion} : EnvChange(p, v)
    \/ \E m \in ModuleNames : ExternalImport(m)

InitLoad == Init /\ source = None

SpecLoad == InitLoad /\ [][NextLoad]_vars

\* A manager whose decorator is given grammar strings
NextGrammar ==
    \E s \in GrammarStrings, tgt \in TargetInputs : DecorateGrammar(s, tgt)

InitGrammar == Init /\ \A p \in Packages : installed[p] = MaxVersion

SpecGrammar == InitGrammar /\ [][NextGrammar]_vars

\* find_spec finding the same for every module
UniformFinders == {f \in Finders : \A m, n \in DOMAIN f : f[m] = f[n]}

\* A manager, its decorated targets and their use
Next ==
    \/ \E mods \in ModulesInputs, tgt \in TargetInputs : Decorate(mods, tgt)
    \/ \E t \in 1..Len(targets) : Instantiate(t)
    \/ \E n \in 1..Len(instances), found \in UniformFinders : AccessModules(n, found)
    \/ \E t \in 1..Len(targets), found \in UniformFinders : CallFunction(t, found)
    \/ \E found \in UniformFinders : Report(found)
    \/ \E p \in Packages, v \in Versions \cup {NoVersion} : EnvChange(p, v)

Spec == Init /\ [][Next]_vars

\* Targets used again and again, by several instances of a class, with no
\* report() in between: a descriptor is resolved by the uses of its target
NextRetry ==
    \/ \E mods \in ModulesInputs, tgt \in TargetInputs : Decorate(mods, tgt)
    \/ \E t \in 1..Len(targets) : InstantiateUpTo(t, MaxInstances + 1)
    \/ \E n \in 1..Len(instances), found \in UniformFinders : AccessModules(n, found)
    \/ \E t \in 1..Len(targets), found \in UniformFinders : CallFunction(t, found)
    \/ \E p \in Packages, v \in Versions \cup {NoVersion} : EnvChange(p, v)

InitRetry == Init /\ source = "src"

SpecRetry == InitRetry /\ [][NextRetry]_vars

----------------------------------------------------------------------------
(* Claims about ModuleSpec.load(), checked under SpecLoad *)

\* C1: every load() call on a descriptor that returns, returns the tuple the
\* first returning call on it produced, which is the tuple the descriptor
\* holds; and no descriptor queries the installed version or writes the
\* module cache more than once.
C1_LoadIdempotent ==
    /\ \A i \in 1..Len(specs) : imports[i] <= 1 /\ checks[i] <= 1
    /\ (last.op = "load" /\ last.raised = None) =>
          /\ first[last.arg].set
          /\ last.tuple = first[last.arg].tuple
          /\ specs[last.arg].load_cache = first[last.arg]

\* a load() that returned the module of an earlier call, the installed
\* version having changed since
C1_Witness ==
    /\ last.op = "load" /\ last.raised = None
    /\ last.tuple.module # NoModule
    /\ imports[last.arg] = 1
    /\ installed[PackageName(specs[last.arg])] # last.tuple.installed_version

\* C2: a resolved descriptor stays as it is resolved, whatever happens next
\* (the environment changing included), and a load() on a descriptor that
\* holds a failure returns that failure.
C2_FailureTerminal ==
    [][\A i \in 1..Len(specs) :
          specs[i].load_cache.set =>
             /\ specs'[i].load_cache = specs[i].load_cache
             /\ (specs[i].load_cache.tuple.module = NoModule
                 /\ last'.op = "load" /\ last'.arg = i) =>
                    (last'.raised = None /\ last'.tuple = specs[i].load_cache.tuple)
      ]_vars

\* a load() that returned not-installed for a package that is installed now,
\* in a version the descriptor accepts
C2_Witness ==
    /\ last.op = "load" /\ last.raised = None
    /\ last.tuple.module = NoModule
    /\ last.tuple.installed_version = NoVersion
    /\ installed[PackageName(specs[last.arg])] # NoVersion
    /\ Contains(SpecifiersOrEmpty(specs[last.arg]),
                installed[PackageName(specs[last.arg])])

\* C3: a load() on an unresolved descriptor with an absolute module name
\* whose package is not installed does not raise and returns
\* (None, None, "<package> is not installed").
C3_NotInstalled ==
    [][\A i \in 1..Len(specs) :
          (/\ last'.op = "load" /\ last'.arg = i
           /\ ~specs[i].load_cache.set
           /\ ~StartsWithDot(specs[i].module_name)
           /\ installed[PackageName(specs[i])] = NoVersion) =>
             /\ last'.raised = None
             /\ last'.tuple.module = NoModule
             /\ last'.tuple.installed_version = NoVersion
             /\ last'.tuple.error.kind = "is not installed"
             /\ last'.tuple.error.subject = PackageName(specs[i])
      ]_vars

\* a load() that returned not-installed, for a descriptor whose specifier is
\* malformed as well
C3_Witness ==
    /\ last.op = "load" /\ last.raised = None
    /\ last.tuple.error.kind = "is not installed"
    /\ installed[PackageName(specs[last.arg])] = NoVersion
    /\ InvalidSpecifier(SpecifiersOrEmpty(specs[last.arg]))

\* C4: a load() on an unresolved descriptor with an absolute module name
\* whose package is installed in a version outside its (well-formed) range
\* returns (None, <that version>, "... does not meet requirement ...") and
\* leaves the module cache as it was.
C4_VersionMismatch ==
    [][\A i \in 1..Len(specs) :
          (/\ last'.op = "load" /\ last'.arg = i
           /\ ~specs[i].load_cache.set
           /\ ~StartsWithDot(specs[i].module_name)
           /\ installed[PackageName(specs[i])] # NoVersion
           /\ ~InvalidSpecifier(SpecifiersOrEmpty(specs[i]))
           /\ ~Contains(SpecifiersOrEmpty(specs[i]), installed[PackageName(specs[i])])) =>
             /\ last'.raised = None
             /\ last'.tuple.module = NoModule
             /\ last'.tuple.installed_version = installed[PackageName(specs[i])]
             /\ last'.tuple.error.kind = "does not meet requirement"
             /\ sysmodules' = sysmodules
             /\ imports' = imports
      ]_vars

\* a load() that returned a version mismatch for a module nothing has
\* imported
C4_Witness ==
    /\ last.op = "load" /\ last.raised = None
    /\ last.tuple.error.kind = "does not meet requirement"
    /\ last.tuple.installed_version = installed[PackageName(specs[last.arg])]
    /\ last.tuple.installed_version # NoVersion
    /\ specs[last.arg].specifiers = ">=1"
    /\ sysmodules[specs[last.arg].module_name] = NoModule

\* C5: constructing a descriptor never raises; load() on a descriptor whose
\* module name starts with "." raises ValueError, produces no result tuple
\* and leaves the descriptor unresolved without having queried anything; and
\* load() raises for nothing else.
C5_RelativeImportRaises ==
    /\ last.op = "construct" => last.raised = None
    /\ \A i \in 1..Len(specs) :
          StartsWithDot(specs[i].module_name) =>
             /\ ~specs[i].load_cache.set
             /\ ~first[i].set
             /\ checks[i] = 0 /\ imports[i] = 0
    /\ last.op = "load" =>
          /\ StartsWithDot(specs[last.arg].module_name) <=> last.raised = "ValueError"
          /\ last.raised = "ValueError" => last.tuple = NoTuple
          /\ last.raised \in {None, "ValueError"}

\* a load() that raised ValueError
C5_Witness ==
    /\ last.op = "load" /\ last.raised = "ValueError"
    /\ StartsWithDot(specs[last.arg].module_name)

\* C22: a load() on an unresolved descriptor with an absolute module name
\* and a version range that does not parse returns, when the package is
\* installed, (None, <installed version>, "<range> is not a valid
\* specifier") and imports nothing; when the package is not installed it
\* returns the not-installed failure with no installed version.
C22_InvalidSpecifier ==
    [][\A i \in 1..Len(specs) :
          (/\ last'.op = "load" /\ last'.arg = i
           /\ ~specs[i].load_cache.set
           /\ ~StartsWithDot(specs[i].module_name)
           /\ InvalidSpecifier(SpecifiersOrEmpty(specs[i]))) =>
             /\ last'.raised = None
             /\ last'.tuple.module = NoModule
             /\ specs'[i].load_cache = Cached(last'.tuple)
             /\ sysmodules' = sysmodules
             /\ imports' = imports
             /\ IF installed[PackageName(specs[i])] = NoVersion
                THEN /\ last'.tuple.installed_version = NoVersion
                     /\ last'.tuple.error.kind = "is not installed"
                ELSE /\ last'.tuple.installed_version = installed[PackageName(specs[i])]
                     /\ last'.tuple.error.kind = "is not a valid specifier"
                     /\ last'.tuple.error.subject = specs[i].specifiers
      ]_vars

\* a load() that returned the invalid-specifier failure with the installed
\* version of the package
C22_Witness ==
    /\ last.op = "load" /\ last.raised = None
    /\ last.tuple.module = NoModule
    /\ last.tuple.error.kind = "is not a valid specifier"
    /\ last.tuple.installed_version # NoVersion
    /\ last.tuple.installed_version = installed[PackageName(specs[last.arg])]

\* the descriptor passes the installation, specifier and range tests
ReachesImport(i) ==
    /\ ~specs[i].load_cache.set
    /\ ~StartsWithDot(specs[i].module_name)
    /\ installed[PackageName(specs[i])] # NoVersion
    /\ ~InvalidSpecifier(SpecifiersOrEmpty(specs[i]))
    /\ Contains(SpecifiersOrEmpty(specs[i]), installed[PackageName(specs[i])])

\* C23: a load() that reaches the import step with the module already in
\* the module cache returns the cached handle and writes nothing; so two
\* descriptors of one module name that both hold a module hold the same
\* handle, which is the cache's, and at most one of them wrote the cache.
C23_CacheReused ==
    [][/\ \A i \in 1..Len(specs) :
            (/\ last'.op = "load" /\ last'.arg = i
             /\ ReachesImport(i)
             /\ sysmodules[specs[i].module_name] # NoModule) =>
               /\ last'.raised = None
               /\ last'.tuple.module = sysmodules[specs[i].module_name]
               /\ last'.tuple.error = NoError
               /\ sysmodules' = sysmodules
               /\ imports' = imports
       /\ \A i, j \in 1..Len(specs') :
            (/\ i # j
             /\ specs'[i].module_name = specs'[j].module_name
             /\ specs'[i].load_cache.set /\ specs'[j].load_cache.set
             /\ specs'[i].load_cache.tuple.module # NoModule
             /\ specs'[j].load_cache.tuple.module # NoModule) =>
               /\ specs'[i].load_cache.tuple.module = specs'[j].load_cache.tuple.module
               /\ specs'[i].load_cache.tuple.module = sysmodules'[specs'[i].module_name]
               /\ imports'[i] + imports'[j] <= 1
      ]_vars

\* the second of two descriptors of one module has just loaded, taking the
\* handle the first registered
C23_Witness ==
    /\ Len(specs) = 2
    /\ specs[1].module_name = specs[2].module_name
    /\ last.op = "load" /\ last.raised = None
    /\ imports[last.arg] = 0
    /\ \E j \in 1..2 : j # last.arg /\ imports[j] = 1
                       /\ specs[j].load_cache.tuple.module = last.tuple.module

\* the load() of descriptor i has failed
LoadFailed(i) ==
    /\ last'.op = "load" /\ last'.arg = i
    /\ ~specs[i].load_cache.set
    /\ \/ last'.raised # None
       \/ last'.tuple.module = NoModule

\* C24: a load() that ends in a not-installed, invalid-specifier or
\* version-mismatch failure or in the relative-import ValueError leaves the
\* module cache unchanged; one that ends for want of an import spec or of a
\* loader leaves the entry of module_name unset and changes at most the
\* entry of the parent package of a dotted name, which the lookup has
\* imported; and a load() changes the entry of its module_name only by
\* registering the module it returns.
C24_FailureLeavesModuleUnregistered ==
    [][\A i \in 1..Len(specs) :
          /\ LoadFailed(i) =>
               /\ sysmodules'[specs[i].module_name] = sysmodules[specs[i].module_name]
               /\ imports' = imports
               /\ IF /\ last'.raised = None
                     /\ last'.tuple.error.kind \in {"Cannot find module spec", "has no loader"}
                  THEN /\ sysmodules[specs[i].module_name] = NoModule
                       /\ sysmodules' = FindSpec(sysmodules, specs[i].module_name)
                  ELSE sysmodules' = sysmodules
          /\ (/\ last'.op = "load" /\ last'.arg = i
              /\ sysmodules'[specs[i].module_name] # sysmodules[specs[i].module_name]) =>
               /\ last'.raised = None
               /\ last'.tuple.module # NoModule
               /\ sysmodules'[specs[i].module_name] = last'.tuple.module
               /\ sysmodules[specs[i].module_name] = NoModule
      ]_vars

\* as claimed: a load() that ends in any failure leaves the module cache
\* unchanged
C24_Original ==
    [][\A i \in 1..Len(specs) : LoadFailed(i) => sysmodules' = sysmodules]_vars

\* a load() of a dotted name has failed for want of a loader, and the parent
\* package is in the module cache on its account
C24_Witness ==
    /\ last.op = "load" /\ last.raised = None
    /\ last.tuple.module = NoModule
    /\ last.tuple.error.kind = "has no loader"
    /\ HasDot(specs[last.arg].module_name)
    /\ sysmodules[specs[last.arg].module_name] = NoModule
    /\ sysmodules[Split(specs[last.arg].module_name)[1]] = ParentImported

----------------------------------------------------------------------------
(* Claims about the manager, checked under Spec *)

\* the descriptors (heap indices) of the target used by the last operation
LastSpecs ==
    IF last.op = "modules" THEN targets[instances[last.arg].cls].module_specs
    ELSE IF last.op = "call" THEN targets[last.arg].module_specs
    ELSE <<>>

Failed(i) == specs[i].load_cache.tuple.module = NoModule

\* C6: a decoration, failed or not, leaves the module cache, version_register
\* and every existing descriptor as they were, and the descriptors it creates
\* are unresolved, with no installed version queried and nothing imported.
C6_DecorationLazy ==
    [][last'.op = "decorate" =>
          /\ sysmodules' = sysmodules
          /\ version_register' = version_register
          /\ Len(specs') >= Len(specs)
          /\ \A i \in 1..Len(specs') :
                IF i <= Len(specs)
                THEN specs'[i] = specs[i] /\ checks'[i] = checks[i]
                     /\ imports'[i] = imports[i]
                ELSE ~specs'[i].load_cache.set /\ checks'[i] = 0 /\ imports'[i] = 0
      ]_vars

\* a decoration just registered a descriptor whose package is installed in a
\* version it accepts, and nothing is resolved, recorded or imported
C6_Witness ==
    /\ last.op = "decorate" /\ last.raised = None
    /\ \E k \in 1..Len(spec_register) :
          LET sp == specs[spec_register[k].spec] IN
          /\ ~StartsWithDot(sp.module_name)
          /\ installed[PackageName(sp)] # NoVersion
          /\ Contains(SpecifiersOrEmpty(sp), installed[PackageName(sp)])
    /\ \A i \in 1..Len(specs) : ~specs[i].load_cache.set /\ checks[i] = 0
    /\ \A m \in ModuleNames : version_register[m] = NoVersion /\ sysmodules[m] = NoModule

\* C7: instantiating a decorated class never raises and loads nothing; the
\* access of `modules` on an instance resolves every descriptor of its class
\* and raises the combined ImportError exactly when one of them has no module
\* (a relative module name raising ValueError instead).
C7_ErrorOnlyOnAccess ==
    [][/\ last'.op = "instantiate" =>
             /\ last'.raised = None
             /\ ~instances'[last'.arg].loaded
             /\ instances'[last'.arg].cache = EmptyMapping
             /\ specs' = specs /\ checks' = checks /\ sysmodules' = sysmodules
       /\ (last'.op = "modules" /\ last'.raised # "ValueError") =>
             LET ms == targets'[instances'[last'.arg].cls].module_specs IN
             /\ \A k \in 1..Len(ms) : specs'[ms[k]].load_cache.set
             /\ last'.raised \in {None, "ImportError"}
             /\ last'.raised = "ImportError" <=>
                   \E k \in 1..Len(ms) : specs'[ms[k]].load_cache.tuple.module = NoModule
             /\ instances'[last'.arg].loaded <=> last'.raised = None
      ]_vars

\* an instance of a class with one satisfied and one unsatisfied descriptor,
\* whose `modules` raised ImportError
C7_Witness ==
    /\ last.op = "modules" /\ last.raised = "ImportError"
    /\ Len(LastSpecs) = 2
    /\ \E j, k \in 1..2 : ~Failed(LastSpecs[j]) /\ Failed(LastSpecs[k])

\* the descriptors of the last use that have no module, in declaration order
LastFailed == SelectSeq(LastSpecs, Failed)

\* C8 (as amended): a use of a target that does not raise ValueError resolves
\* every descriptor of the target, and if some have no module it raises one
\* ImportError whose message has one line for each of them, in declaration
\* order, naming the descriptor's package (distribution_name if given, else
\* the first dot-segment of module_name) and the installed version found.
C8_CombinedError ==
    (last.op \in {"modules", "call"} /\ last.raised # "ValueError") =>
        /\ \A k \in 1..Len(LastSpecs) : specs[LastSpecs[k]].load_cache.set
        /\ last.raised = "ImportError" <=> LastFailed # <<>>
        /\ Len(last.message) = Len(LastFailed)
        /\ \A j \in 1..Len(LastFailed) :
              /\ last.message[j].pkg_name = PackageName(specs[LastFailed[j]])
              /\ last.message[j].installed =
                    specs[LastFailed[j]].load_cache.tuple.installed_version

\* C8 (as stated): the message of the combined ImportError mentions the
\* module name of every descriptor of the target that has no module.
C8_Original ==
    (last.op \in {"modules", "call"} /\ last.raised = "ImportError") =>
        \A j \in 1..Len(LastFailed) :
            \E l \in 1..Len(last.message) :
                last.message[l].pkg_name = specs[LastFailed[j]].module_name

\* a combined ImportError for two failed descriptors, one line of which names
\* a package that is not the descriptor's module name
C8_Witness ==
    /\ last.op \in {"modules", "call"} /\ last.raised = "ImportError"
    /\ Len(last.message) = 2
    /\ last.message[2].pkg_name # specs[LastFailed[2]].module_name

\* C9: a call of a decorated function that does not raise has resolved every
\* descriptor of the function to a module, runs the function and injects the
\* wrapper's mapping, which holds each descriptor's module under its alias
\* and nothing else; once a call has succeeded, every later call injects that
\* same mapping and calls no load(): no descriptor, register or module-cache
\* entry changes.
C9_FunctionLoadsOnce ==
    [][/\ (last'.op = "call" /\ last'.raised = None) =>
             LET tg == targets'[last'.arg] IN
             /\ last'.called /\ tg.loaded
             /\ last'.mapping = tg.modules_cache
             /\ \A k \in 1..Len(tg.module_specs) :
                   LET sp == specs'[tg.module_specs[k]] IN
                   /\ sp.load_cache.set
                   /\ sp.load_cache.tuple.module # NoModule
                   /\ last'.mapping[sp.alias] = sp.load_cache.tuple.module
             /\ \A al \in Aliases :
                   last'.mapping[al] # Absent =>
                      \E k \in 1..Len(tg.module_specs) :
                          specs'[tg.module_specs[k]].alias = al
       /\ (last'.op = "call" /\ last'.raised # None) => ~last'.called
       /\ \A t \in 1..Len(targets) :
             (last'.op = "call" /\ last'.arg = t) =>
                IF targets[t].loaded
                THEN /\ last'.raised = None
                     /\ last'.loads = 0
                     /\ last'.mapping = targets[t].modules_cache
                     /\ targets' = targets
                     /\ specs' = specs /\ checks' = checks /\ imports' = imports
                     /\ sysmodules' = sysmodules
                     /\ version_register' = version_register
                ELSE /\ last'.loads >= 1
                     /\ last'.raised # "ValueError" =>
                           last'.loads = Len(targets[t].module_specs)
      ]_vars

\* a later call of a loaded function: it loaded nothing and injected the
\* module of the first call, the package having been removed since
C9_Witness ==
    /\ last.op = "call" /\ last.raised = None /\ last.called
    /\ last.loads = 0
    /\ \E k \in 1..Len(LastSpecs) :
          /\ last.mapping[specs[LastSpecs[k]].alias] # NoModule
          /\ installed[PackageName(specs[LastSpecs[k]])] = NoVersion

\* C10: report() returns unless a logged descriptor has a relative module
\* name, and what it returns is one ModuleReport per entry of the spec log,
\* in the order of the log: the i-th report has the module name of the i-th
\* logged descriptor and the consumer of the i-th entry as used_by.
C10_ReportPerPair ==
    /\ last.op = "report" =>
          (last.raised = None <=>
              \A k \in 1..Len(spec_register) :
                  ~StartsWithDot(specs[spec_register[k].spec].module_name))
    /\ (last.op = "report" /\ last.raised = None) =>
        /\ Len(last.reports) = Len(spec_register)
        /\ \A k \in 1..Len(spec_register) :
              /\ last.reports[k].used_by = spec_register[k].used_by
              /\ last.reports[k].module_name = specs[spec_register[k].spec].module_name

\* a report of two entries with the same module name and different consumers
C10_Witness ==
    /\ last.op = "report" /\ last.raised = None
    /\ Len(last.reports) = 2
    /\ last.reports[1].module_name = last.reports[2].module_name
    /\ last.reports[1].used_by # last.reports[2].used_by

\* C11 (as stated): in what report() returns, an entry's status is
\* 'satisfied' exactly when its descriptor's load produced a module,
\* 'missing' exactly when the load found the package not installed, and
\* 'version_mismatch' exactly when the load found the package installed in a
\* version outside the declared range.
C11_Original ==
    (last.op = "report" /\ last.raised = None) =>
        \A k \in 1..Len(last.reports) :
            LET sp == specs[spec_register[k].spec]
                t == sp.load_cache.tuple
                status == last.reports[k].status
            IN  /\ status = "satisfied" <=> t.module # NoModule
                /\ status = "missing" <=> t.installed_version = NoVersion
                /\ status = "version_mismatch" <=>
                      /\ t.installed_version # NoVersion
                      /\ ~Contains(SpecifiersOrEmpty(sp), t.installed_version)

\* C12 (as stated): report() never raises, and after it every logged
\* descriptor is resolved.
C12_Original ==
    last.op = "report" =>
        /\ last.raised = None
        /\ \A k \in 1..Len(spec_register) : specs[spec_register[k].spec].load_cache.set

\* the number of descriptors of a loop that come before its first
\* descriptor with a relative module name: those whose load() returns
Returning(loop) ==
    Cardinality({k \in 1..Len(loop) :
                    \A j \in 1..k : ~StartsWithDot(specs[loop[j]].module_name)})

Latest(S) == CHOOSE k \in S : \A j \in S : j <= k

\* C13: version_register changes only in a loading loop (of a first modules
\* access, of a call of a function not loaded yet, of report()), and there an
\* entry changes only for the module names of descriptors whose load()
\* returned an installed version (with a module or with a failure): it is
\* then the installed version returned for the last such descriptor of the
\* loop.  A load() that ends not-installed adds and changes nothing, and
\* every entry is the installed version some descriptor with that module
\* name holds in its result.
C13_VersionRegister ==
    [][\A m \in ModuleNames :
          LET loop == IF last'.op = "report"
                      THEN [k \in 1..Len(spec_register) |-> spec_register[k].spec]
                      ELSE IF last'.op = "modules" /\ ~instances[last'.arg].loaded
                      THEN targets[instances[last'.arg].cls].module_specs
                      ELSE IF last'.op = "call" /\ ~targets[last'.arg].loaded
                      THEN targets[last'.arg].module_specs
                      ELSE <<>>
              hits == {k \in 1..Returning(loop) :
                          /\ specs'[loop[k]].module_name = m
                          /\ specs'[loop[k]].load_cache.tuple.installed_version # NoVersion}
          IN  /\ IF hits = {}
                 THEN version_register'[m] = version_register[m]
                 ELSE version_register'[m] =
                         specs'[loop[Latest(hits)]].load_cache.tuple.installed_version
              /\ version_register'[m] # NoVersion =>
                    \E i \in 1..Len(specs') :
                        /\ specs'[i].module_name = m
                        /\ specs'[i].load_cache.set
                        /\ specs'[i].load_cache.tuple.installed_version = version_register'[m]
      ]_vars

\* a use whose descriptor ended not-installed, the entry of its module name
\* being the version an earlier load of another descriptor determined
C13_Witness ==
    /\ last.op \in {"modules", "call"} /\ last.raised = "ImportError"
    /\ \E k \in 1..Len(LastSpecs) :
          /\ specs[LastSpecs[k]].load_cache.tuple.installed_version = NoVersion
          /\ version_register[specs[LastSpecs[k]].module_name] # NoVersion

\* the consumers the spec log holds for the module name m, in log order
RECURSIVE Consumers(_, _)
Consumers(reg, m) ==
    IF reg = <<>> THEN <<>>
    ELSE (IF specs[Head(reg).spec].module_name = m THEN <<Head(reg).used_by>> ELSE <<>>)
         \o Consumers(Tail(reg), m)

\* C14: a decoration that succeeds appends the target's name to the consumer
\* list of the module name of each of its descriptors, once per descriptor,
\* and leaves the other lists as they were, its descriptors being
\* unresolved; a decoration that fails and every other operation (a modules
\* access, a call, a report) leave usage_register unchanged.  So each list is
\* the consumers of its module name in decoration order.
C14_UsageRegister ==
    [][/\ IF last'.op = "decorate" /\ last'.raised = None
          THEN LET tg == targets'[last'.arg] IN
               /\ last'.arg = Len(targets) + 1
               /\ \A m \in ModuleNames :
                     usage_register'[m] =
                        IF \E k \in 1..Len(tg.module_specs) :
                               specs'[tg.module_specs[k]].module_name = m
                        THEN Append(usage_register[m], tg.name)
                        ELSE usage_register[m]
               /\ \A k \in 1..Len(tg.module_specs) :
                     ~specs'[tg.module_specs[k]].load_cache.set
          ELSE usage_register' = usage_register
       /\ \A m \in ModuleNames : usage_register'[m] = Consumers(spec_register, m)'
      ]_vars

\* two targets were decorated with the same module name, one of them has
\* been used, and the list holds both in decoration order
C14_Witness ==
    /\ Len(targets) = 2
    /\ targets[1].name # targets[2].name
    /\ \E m \in ModuleNames : usage_register[m] = <<targets[1].name, targets[2].name>>
    /\ last.op \in {"modules", "call", "report"}
    /\ \E i \in 1..Len(specs) : specs[i].load_cache.set

\* C15 (as stated), checked under SpecLoad: a load() of a descriptor made
\* with no explicit specifier and from_meta false, whose package is
\* installed, never returns the version-mismatch failure.
C15_Original ==
    (/\ last.op = "load" /\ last.raised = None
     /\ ~specs[last.arg].from_meta
     /\ specs[last.arg].specifiers = DefaultSpecifiers
     /\ last.tuple.installed_version # NoVersion) =>
        last.tuple.error.kind # "does not meet requirement"

\* C16: a descriptor made with no alias has its module name as alias and one
\* made with an alias has that alias; and the mapping a use of a target
\* returns or injects has a key for each descriptor's alias, holding the
\* module of the last descriptor with that alias, while the module name of a
\* descriptor whose alias differs from it is no key, unless it is the alias
\* of another descriptor of the target.
C16_KeyedByAlias ==
    /\ \A kw \in ManagedInputs \cup DirectInputs :
          ModuleSpec(kw).alias = IF kw.alias = None THEN kw.module_name ELSE kw.alias
    /\ (last.op \in {"modules", "call"} /\ last.raised = None) =>
          \A k \in 1..Len(LastSpecs) :
              LET sp == specs[LastSpecs[k]] IN
              /\ last.mapping[sp.alias] # Absent
              /\ (\A j \in (k + 1)..Len(LastSpecs) : specs[LastSpecs[j]].alias # sp.alias)
                    => last.mapping[sp.alias] = sp.load_cache.tuple.module
              /\ (/\ sp.alias # sp.module_name
                  /\ \A j \in 1..Len(LastSpecs) : specs[LastSpecs[j]].alias # sp.module_name)
                    => last.mapping[sp.module_name] = Absent

\* a use of a target with an aliased and a plain descriptor: the alias and
\* the plain module name are keys, the aliased module name is not
C16_Witness ==
    /\ last.op \in {"modules", "call"} /\ last.raised = None
    /\ \E j, k \in 1..Len(LastSpecs) :
          LET sp == specs[LastSpecs[j]]
              sq == specs[LastSpecs[k]]
          IN  /\ sp.alias # sp.module_name
              /\ last.mapping[sp.alias] = sp.load_cache.tuple.module
              /\ last.mapping[sp.module_name] = Absent
              /\ sq.alias = sq.module_name
              /\ last.mapping[sq.module_name] = sq.load_cache.tuple.module

\* C17: every decorated target is a class or a function, no usage or
\* spec-log entry names anything else, and a decoration that raises
\* (TypeError for a target of another kind) leaves usage_register, the spec
\* log, the targets and the descriptors as they were.
C17_TypeError ==
    [][last'.op = "decorate" =>
          /\ \A t \in 1..Len(targets') : targets'[t].kind \in {"class", "function"}
          /\ \A k \in 1..Len(spec_register') :
                \E t \in 1..Len(targets') : targets'[t].name = spec_register'[k].used_by
          /\ last'.raised # None =>
                /\ usage_register' = usage_register
                /\ spec_register' = spec_register
                /\ targets' = targets
                /\ specs' = specs
      ]_vars

\* a decoration raised TypeError on a manager that has registrations
C17_Witness ==
    /\ last.op = "decorate" /\ last.raised = "TypeError"
    /\ spec_register # <<>>
    /\ \A k \in 1..Len(spec_register) : spec_register[k].used_by # "o"

\* the requirements of the source that get_specifier can return for a
\* target under an extra
Matching(target, extra) ==
    {k \in 1..Len(SourceRequires) :
        /\ SourceRequires[k].name = target
        /\ (SourceRequires[k].marker = None
            \/ MarkerEvaluate(SourceRequires[k].marker, extra))}

\* C18 (as stated): a decoration with a from-meta descriptor fails when the
\* manager has no source, when the descriptor's extra is not an extra of the
\* source, or when the source lists no requirement for its module name: no
\* such descriptor is ever registered.
C18_Original ==
    \A k \in 1..Len(spec_register) :
        LET sp == specs[spec_register[k].spec] IN
        sp.from_meta =>
            /\ source # None
            /\ sp.extra # None => sp.extra \in SourceExtras
            /\ Matching(sp.module_name, sp.extra) # {}

\* C19 (as stated): every descriptor with an extra is from-meta.
C19_Original ==
    \A i \in 1..Len(specs) : specs[i].extra # None => specs[i].from_meta

\* C20 (as stated): a decoration whose from-meta descriptor has more than
\* one marker-satisfied requirement of the source for its module name under
\* its extra fails: no descriptor is registered with a specifier taken from
\* one of several such requirements.
C20_Original ==
    \A k \in 1..Len(spec_register) :
        LET sp == specs[spec_register[k].spec] IN
        (/\ sp.from_meta /\ source # None
         /\ \E j \in Matching(sp.module_name, sp.extra) :
                sp.specifiers = SourceRequires[j].specifier)
            => Cardinality(Matching(sp.module_name, sp.extra)) <= 1

----------------------------------------------------------------------------
(* Claims about the grammar strings, checked under SpecGrammar *)

C26_FailedDecorationAtomic ==
    [][(last'.op = "decorate" /\ last'.raised # None) =>
          /\ \A m \in ModuleNames : usage_register'[m] = usage_register[m]
          /\ Len(spec_register') = Len(spec_register)
          /\ \A k \in 1..Len(spec_register) : spec_register'[k] = spec_register[k]
          /\ Len(specs') = Len(specs)
          /\ Len(targets') = Len(targets)
          /\ last'.arg = 0
      ]_vars

\* a decoration raised for its second descriptor, the first having been
\* validated, and neither register nor the heap holds anything of it
C26_Witness ==
    /\ last.op = "decorate"
    /\ last.raised \notin {None, "TypeError"}
    /\ last.validated >= 1
    /\ Len(specs) = Len(spec_register)
    /\ \A k \in 1..Len(spec_register) :
          \E t \in 1..Len(targets), j \in 1..MaxDeps :
              /\ j <= Len(targets[t].module_specs)
              /\ targets[t].module_specs[j] = spec_register[k].spec

\* the number of consumers listed in usage_register u for the modules S
RECURSIVE TotalUses(_, _)
TotalUses(u, S) ==
    IF S = {} THEN 0
    ELSE LET m == CHOOSE x \in S : TRUE IN Len(u[m]) + TotalUses(u, S \ {m})

\* s is an initial part of t
IsPrefix(s, t) == Len(s) <= Len(t) /\ \A k \in 1..Len(s) : s[k] = t[k]

\* C27: after every step the spec log has as many entries as the lists of
\* usage_register have consumers in total, and for every module name
\* usage_register lists exactly the consumers of the log entries of that
\* name, in the order of the log; and a step only ever extends the log and
\* the lists at their ends.
C27_RegistersAgree ==
    [][/\ Len(spec_register') = TotalUses(usage_register', ModuleNames)
       /\ \A m \in ModuleNames :
             /\ Len(usage_register'[m]) =
                   Cardinality({k \in 1..Len(spec_register') :
                                   specs'[spec_register'[k].spec].module_name = m})
             /\ \A j \in 1..Len(usage_register'[m]) :
                   \E k \in 1..Len(spec_register') :
                      /\ specs'[spec_register'[k].spec].module_name = m
                      /\ spec_register'[k].used_by = usage_register'[m][j]
                      /\ j = Cardinality({n \in 1..k :
                                             specs'[spec_register'[n].spec].module_name = m})
             /\ IsPrefix(usage_register[m], usage_register'[m])
       /\ IsPrefix(spec_register, spec_register')
       /\ \A k \in 1..Len(spec_register) :
             specs'[spec_register[k].spec].module_name =
                specs[spec_register[k].spec].module_name
      ]_vars

\* a function was decorated twice with one module, and after a report() of
\* two entries the list of the module names the function twice
C27_Witness ==
    /\ last.op = "report" /\ last.raised = None
    /\ Len(last.reports) = 2
    /\ Len(spec_register) = 2
    /\ spec_register[1].used_by = spec_register[2].used_by
    /\ \E m \in ModuleNames :
          usage_register[m] = <<spec_register[1].used_by, spec_register[2].used_by>>

----------------------------------------------------------------------------
(* Claims about repeated uses of a target, checked under SpecRetry *)

\* the descriptors of target t
SpecsOf(t) == targets[t].module_specs

\* every descriptor of target t is resolved and one of them has no module:
\* where no report() runs, the state a use of t that raised the combined
\* ImportError leaves
FailedBefore(t) ==
    /\ \A k \in 1..Len(SpecsOf(t)) : specs[SpecsOf(t)[k]].load_cache.set
    /\ \E k \in 1..Len(SpecsOf(t)) : Failed(SpecsOf(t)[k])

\* the step is a use of target t
UseOf(t) ==
    \/ last'.op = "call" /\ last'.arg = t
    \/ last'.op = "modules" /\ instances[last'.arg].cls = t

\* C25: once a use of a target has raised the combined ImportError, every
\* use of the target (`modules` on any instance of the class, or a call of
\* the function) raises the combined ImportError, with one line per failed
\* descriptor, gives no mapping, does not call the function, leaves the
\* target and the instance not loaded, and queries and imports nothing.
C25_FailureRepeats ==
    [][\A t \in 1..Len(targets) :
          (UseOf(t) /\ FailedBefore(t)) =>
             /\ last'.raised = "ImportError"
             /\ last'.mapping = EmptyMapping
             /\ ~last'.called
             /\ Len(last'.message) = Len(SelectSeq(SpecsOf(t), Failed))
             /\ ~targets'[t].loaded
             /\ last'.op = "modules" => ~instances'[last'.arg].loaded
             /\ specs' = specs /\ first' = first
             /\ checks' = checks /\ imports' = imports
             /\ sysmodules' = sysmodules
      ]_vars

\* two instances of one class have both had `modules` raise, the last
\* access after the missing package was installed: it still raised
C25_Witness ==
    /\ last.op = "modules" /\ last.raised = "ImportError"
    /\ Len(instances) = 2
    /\ instances[1].cls = instances[2].cls
    /\ \A n \in 1..2 : ~instances[n].loaded /\ instances[n].cache # EmptyMapping
    /\ \E k \in 1..Len(LastSpecs) :
          LET sp == specs[LastSpecs[k]] IN
          /\ sp.load_cache.tuple.error.kind = "is not installed"
          /\ installed[PackageName(sp)] # NoVersion
          /\ Contains(SpecifiersOrEmpty(sp), installed[PackageName(sp)])

====
